---- MODULE Spec2Model ----
(***************************************************************************)
(* Model of the project handlers of the registry server                    *)
(* (CreateProject, DeleteProject, GetProject, ListProjects, UpdateProject) *)
(* over a key-value store with single-key get/put/delete and a key-ordered *)
(* scan.  Every storage operation of a handler is one step, so that calls  *)
(* of different RPCs interleave exactly at the storage operations.         *)
(* A last part models the registry compile command (compileSpec and        *)
(* ParentNameFromResourceName).                                            *)
(***************************************************************************)
EXTENDS Integers, Sequences, FiniteSets, TLC

(* ------------------------------ bounds -------------------------------- *)

\* Calls started in one behaviour (each reads the clock at most once).
MaxCalls == 3

\* Project ids the RPCs of Spec/SpecSeq are issued for.
MaxKeys == 1

\* Descendant records that can exist under one project.
MaxChildren == 2

\* Project ids that can be stored when ListProjects is traversed.
MaxProjects == 4

\* Largest page size a ListProjects request asks for.
MaxPageReq == 4

\* Longest resource name (in slashes and slash-free pieces) handed to
\* ParentNameFromResourceName, the names of specs apart.
MaxNameLen == 4

(* --------------------------- value domains ---------------------------- *)

\* Calls in flight at the same time.
Procs == {1, 2}

\* The one connection that issues the calls of SpecSeq.
SeqProc == CHOOSE p \in Procs : \A q \in Procs : p <= q

KeyIDs == 1..MaxKeys

ListIDs == 1..MaxProjects

ChildIDs == 1..MaxChildren

\* An id that NewProjectFromProjectID / NewProjectFromResourceName rejects.
BadID == 0

DisplayNames == {"Demo", "Demo2"}

VARIABLES
    store,      \* datastore, kind Project: present key -> stored record
    children,   \* datastore, descendant kinds: project id -> ids of its stored descendants
    now,        \* the last reading of the clock (time.Now() in Project.Update);
                \* every reading is later than the one before it
    calls,      \* number of calls started
    pc,         \* per call in flight: the statement the handler is at
    request,    \* per call: the request message
    project,    \* per call: the handler's local `project`
    resp,       \* per call: the status code returned
    hist,       \* per call: what the call has observed and done so far
    list,       \* the ListProjects call in flight
    trav,       \* the client that pages through ListProjects
    cli         \* the run of the registry compile command

vars == <<store, children, now, calls, pc, request, project, resp, hist, list, trav, cli>>

rpcVars == <<store, children, now, calls, pc, request, project, resp, hist>>

(* ------------------------------ records ------------------------------- *)

\* models.Project as NewProjectFromProjectID leaves it: only the id is set.
NewProject(id) ==
    [ProjectID |-> id, DisplayName |-> "", CreateTime |-> 0, UpdateTime |-> 0]

NoRequest == [op |-> "none", id |-> BadID, name |-> "", invalid |-> FALSE]

\* What a call has observed and done so far:
\*   read     the error of its client.Get ("none" before it)
\*   present  whether its key was stored when it issued the Get (DeleteProject:
\*            the Delete) of that key
\*   apply    the error of project.Update
\*   write    the error of its client.Put (DeleteProject: client.Delete)
\*   changed  whether one of its storage operations changed what is stored
\*   childFault, childrenLeft  DeleteChildren: a deletion failed; the
\*            descendants found and not yet deleted
NoHist ==
    [read |-> "none", present |-> FALSE, apply |-> "none", write |-> "none",
     changed |-> FALSE, childFault |-> FALSE, childrenLeft |-> {},
     childrenDeleted |-> {}]

Present(id) == id \in DOMAIN store

\* client.Put: the record is stored under the key, replacing what was there.
Put(id, rec) == [k \in DOMAIN store \cup {id} |-> IF k = id THEN rec ELSE store[k]]

\* client.Delete: the key is removed; deleting a key that is not stored succeeds.
Delete(id) == [k \in DOMAIN store \ {id} |-> store[k]]

\* The errors client.Get can return for a key: nil when the entity was
\* loaded, ErrNoSuchEntity when the key is not stored, or any other fault.
GetOutcomes(id) ==
    (IF Present(id) THEN {"nil"} ELSE {"ErrNoSuchEntity"}) \cup {"fault"}

\* The errors client.Put and client.Delete can return.
WriteOutcomes == {"nil", "fault"}

\* internalError(err): nil stays nil, anything else is the Internal status.
internalError(err) == IF err = "nil" THEN "OK" ELSE "Internal"

\* Project.Update(message): applies the message's fields and refreshes
\* UpdateTime; a message with an invalid field is rejected and the record
\* is left as it was.
ProjectUpdate(rec, msg, t) ==
    IF msg.invalid
    THEN rec
    ELSE [rec EXCEPT !.DisplayName = msg.name, !.UpdateTime = t]

\* The error Project.Update returns.
ProjectUpdateErr(msg) == IF msg.invalid THEN "error" ELSE "nil"

(* ---------------------------- call set-up ----------------------------- *)

\* A handler leaves with a status code.
Return(p, code) ==
    /\ pc' = [pc EXCEPT ![p] = "done"]
    /\ resp' = [resp EXCEPT ![p] = code]

\* Lines 18-26 (and the same lines of the other handlers): the client is
\* built and the name or id of the request is validated.
Begin(p, req, clientOk, next) ==
    /\ pc[p] = "idle"
    /\ calls < MaxCalls
    /\ calls' = calls + 1
    /\ request' = [request EXCEPT ![p] = req]
    /\ hist' = [hist EXCEPT ![p] = [NoHist EXCEPT !.childrenLeft =
                    IF req.op = "Delete" /\ clientOk /\ req.id # BadID
                    THEN children[req.id] ELSE {}]]
    /\ project' = [project EXCEPT ![p] = NewProject(req.id)]
    /\ IF ~clientOk THEN Return(p, "Internal")
       ELSE IF req.id = BadID THEN Return(p, "InvalidArgument")
       ELSE /\ pc' = [pc EXCEPT ![p] = next]
            /\ resp' = [resp EXCEPT ![p] = "none"]
    /\ UNCHANGED <<store, children, now, list, trav, cli>>

MutatingRequests(op) ==
    [op : {op}, id : KeyIDs \cup {BadID}, name : DisplayNames, invalid : BOOLEAN]

PlainRequests(op) ==
    [op : {op}, id : KeyIDs \cup {BadID}, name : {""}, invalid : {FALSE}]

(* --------------------------- CreateProject ---------------------------- *)

CreateProjectBegin(p) ==
    \E req \in MutatingRequests("Create"), clientOk \in BOOLEAN :
        Begin(p, req, clientOk, "create_get")

\* Line 31: the test that decides that the project already exists.
CreateSeesExisting(err) == err = "nil"

\* Lines 34-35: the result of project.Update is overwritten by the Put at
\* line 36 before anything reads it; CreateTime is copied from UpdateTime.
CreateApply(rec, msg, t) ==
    LET updated == ProjectUpdate(rec, msg, t)
    IN  [updated EXCEPT !.CreateTime = updated.UpdateTime]

\* Lines 29-35: the existence check, then the local preparation of the record.
CreateProjectGet(p) ==
    /\ pc[p] = "create_get"
    /\ \E err \in GetOutcomes(request[p].id) :
        /\ hist' = [hist EXCEPT ![p].read = err,
                                ![p].present = Present(request[p].id),
                                ![p].apply = IF CreateSeesExisting(err) THEN "none"
                                             ELSE ProjectUpdateErr(request[p])]
        /\ IF CreateSeesExisting(err)
           THEN /\ Return(p, "AlreadyExists")
                /\ UNCHANGED <<now, project>>
           ELSE /\ now' = now + 1
                /\ project' = [project EXCEPT ![p] = CreateApply(@, request[p], now')]
                /\ pc' = [pc EXCEPT ![p] = "create_put"]
                /\ UNCHANGED resp
    /\ UNCHANGED <<store, children, calls, request, list, trav, cli>>

\* Lines 36-40.
CreateProjectPut(p) ==
    /\ pc[p] = "create_put"
    /\ \E err \in WriteOutcomes :
        /\ store' = IF err = "nil" THEN Put(request[p].id, project[p]) ELSE store
        /\ hist' = [hist EXCEPT ![p].write = err, ![p].changed = (store' # store)]
        /\ Return(p, internalError(err))
    /\ UNCHANGED <<children, now, calls, request, project, list, trav, cli>>

(* ----------------------------- GetProject ----------------------------- *)

GetProjectBegin(p) ==
    \E req \in PlainRequests("Get"), clientOk \in BOOLEAN :
        Begin(p, req, clientOk, "get_get")

\* Lines 73-78: the classification of the error of the read.
GetStatus(err) ==
    IF err = "ErrNoSuchEntity" THEN "NotFound"
    ELSE IF err # "nil" THEN "Internal"
    ELSE "OK"

\* Lines 71-78.
GetProjectGet(p) ==
    /\ pc[p] = "get_get"
    /\ \E err \in GetOutcomes(request[p].id) :
        /\ hist' = [hist EXCEPT ![p].read = err, ![p].present = Present(request[p].id)]
        /\ project' = [project EXCEPT ![p] = IF err = "nil" THEN store[request[p].id] ELSE @]
        /\ Return(p, GetStatus(err))
    /\ UNCHANGED <<store, children, now, calls, request, list, trav, cli>>

(* ---------------------------- UpdateProject --------------------------- *)

UpdateProjectBegin(p) ==
    \E req \in MutatingRequests("Update"), clientOk \in BOOLEAN :
        Begin(p, req, clientOk, "update_get")

\* Lines 147-149: every error of the read is answered with NotFound.
UpdateGetStatus(err) == IF err # "nil" THEN "NotFound" ELSE "OK"

\* The read fills a variable of its own, as CreateProject's does, and
\* `project` stays the fresh record.
UpdateLoaded_Fresh(rec, stored) == rec

\* Line 146: client.Get loads the stored record into `project`.
UpdateLoaded(rec, stored) == stored

\* The error of project.Update is overwritten unread, as in CreateProject.
UpdateAbortsOnApplyError_Never(err) == FALSE

\* Lines 151-153: a failed field application ends the call before the Put.
UpdateAbortsOnApplyError(err) == err # "nil"

\* Lines 145-153.
UpdateProjectGet(p) ==
    /\ pc[p] = "update_get"
    /\ \E err \in GetOutcomes(request[p].id) :
        /\ IF UpdateGetStatus(err) # "OK"
           THEN /\ hist' = [hist EXCEPT ![p].read = err,
                                        ![p].present = Present(request[p].id)]
                /\ Return(p, UpdateGetStatus(err))
                /\ UNCHANGED <<now, project>>
           ELSE LET loaded == UpdateLoaded(project[p], store[request[p].id])
                    applyErr == ProjectUpdateErr(request[p])
                IN  /\ hist' = [hist EXCEPT ![p].read = err,
                                            ![p].present = Present(request[p].id),
                                            ![p].apply = applyErr]
                    /\ now' = now + 1
                    /\ project' = [project EXCEPT
                                     ![p] = ProjectUpdate(loaded, request[p], now')]
                    /\ IF UpdateAbortsOnApplyError(applyErr)
                       THEN Return(p, internalError(applyErr))
                       ELSE /\ pc' = [pc EXCEPT ![p] = "update_put"]
                            /\ UNCHANGED resp
    /\ UNCHANGED <<store, children, calls, request, list, trav, cli>>

\* Lines 154-158.
UpdateProjectPut(p) ==
    /\ pc[p] = "update_put"
    /\ \E err \in WriteOutcomes :
        /\ store' = IF err = "nil" THEN Put(request[p].id, project[p]) ELSE store
        /\ hist' = [hist EXCEPT ![p].write = err, ![p].changed = (store' # store)]
        /\ Return(p, internalError(err))
    /\ UNCHANGED <<children, now, calls, request, project, list, trav, cli>>

(* ---------------------------- DeleteProject --------------------------- *)

DeleteProjectBegin(p) ==
    \E req \in PlainRequests("Delete"), clientOk \in BOOLEAN :
        Begin(p, req, clientOk, "delete_children")

\* Line 55: the error DeleteChildren returns is dropped, so the handler
\* goes on to the project's own key whatever the children's outcome.
DeleteAbortsOnChildFault(childErr) == FALSE

DeleteContinuesAfterChildren(childErr) == TRUE

\* Line 55: DeleteChildren is called in the handler's own flow of control,
\* so line 57 runs only after it has returned.
DeleteChildrenDetached == FALSE

DeleteChildrenAwaited == TRUE

\* project.DeleteChildren: the descendants found when the call starts are
\* deleted one after another; the first fault ends the deletion and is
\* returned.
DeleteProjectChild(p) ==
    /\ pc[p] = "delete_children"
    /\ hist[p].childrenLeft # {}
    /\ LET c == CHOOSE x \in hist[p].childrenLeft :
                    \A y \in hist[p].childrenLeft : x <= y
       IN \E err \in WriteOutcomes :
            IF err = "nil"
            THEN /\ children' = [children EXCEPT ![request[p].id] = @ \ {c}]
                 /\ hist' = [hist EXCEPT ![p].childrenLeft = @ \ {c},
                                         ![p].childrenDeleted = @ \cup {c},
                                         ![p].changed = TRUE]
                 /\ UNCHANGED <<pc, resp>>
            ELSE /\ hist' = [hist EXCEPT ![p].childFault = TRUE]
                 /\ IF DeleteContinuesAfterChildren(err)
                    THEN /\ pc' = [pc EXCEPT ![p] = "delete_key"]
                         /\ UNCHANGED resp
                    ELSE Return(p, internalError(err))
                 /\ UNCHANGED children
    /\ UNCHANGED <<store, now, calls, request, project, list, trav, cli>>

\* DeleteChildren returns nil once every descendant is deleted.
DeleteProjectChildrenDone(p) ==
    /\ pc[p] = "delete_children"
    /\ hist[p].childrenLeft = {}
    /\ pc' = [pc EXCEPT ![p] = "delete_key"]
    /\ UNCHANGED <<store, children, now, calls, request, project, resp, hist, list, trav, cli>>

\* Line 58: the status is the one of the Delete of the project's own key.
DeleteStatus(err) == internalError(err)

\* Lines 56-58.
DeleteProjectKey(p) ==
    /\ \/ pc[p] = "delete_key"
       \/ ~DeleteChildrenAwaited /\ pc[p] = "delete_children"
    /\ \E err \in WriteOutcomes :
        /\ store' = IF err = "nil" THEN Delete(request[p].id) ELSE store
        /\ hist' = [hist EXCEPT ![p].present = Present(request[p].id),
                                ![p].write = err,
                                ![p].changed = @ \/ (store' # store)]
        /\ Return(p, DeleteStatus(err))
    /\ UNCHANGED <<children, now, calls, request, project, list, trav, cli>>

(* ------------------------- end of a call ------------------------------ *)

\* The response has been delivered; the call's locals are gone.
Finish(p) ==
    /\ pc[p] = "done"
    /\ pc' = [pc EXCEPT ![p] = "idle"]
    /\ request' = [request EXCEPT ![p] = NoRequest]
    /\ project' = [project EXCEPT ![p] = NewProject(BadID)]
    /\ resp' = [resp EXCEPT ![p] = "none"]
    /\ hist' = [hist EXCEPT ![p] = NoHist]
    /\ UNCHANGED <<store, children, now, calls, list, trav, cli>>

\* A descendant (api, version, spec) is created under a stored project by
\* the handlers of the descendant kinds.
CreateChild ==
    /\ \E id \in KeyIDs, c \in ChildIDs :
        /\ Present(id)
        /\ c \notin children[id]
        /\ children' = [children EXCEPT ![id] = @ \cup {c}]
    /\ UNCHANGED <<store, now, calls, pc, request, project, resp, hist, list, trav, cli>>

(* ---------------------------- ListProjects ---------------------------- *)

\* boundPageSize: the page size used when the request gives none, and the
\* largest page size served.
DefaultPageSize == 2

MaxPageSize == 3

\* boundPageSize(requested): the request's page size clamped into
\* 1..MaxPageSize, DefaultPageSize when it is not positive.
boundPageSize(n) ==
    IF n > MaxPageSize THEN MaxPageSize
    ELSE IF n <= 0 THEN DefaultPageSize
    ELSE n

\* The empty filter expression.
NoFilter == [field |-> "", op |-> "", value |-> 0]

\* Lines 93-96: the fields declared to the filter compiler.
DeclaredFields == {"project_id", "availability"}

\* Filter expressions of the requests: a comparison of one field with a
\* literal; "owner" is a field that is not declared.
Filters ==
    {NoFilter} \cup
    [field : {"project_id"}, op : {"==", "!="}, value : ListIDs \cup {BadID}] \cup
    [field : {"availability", "owner"}, op : {"=="}, value : {BadID}]

\* createFilterOperator: nil for the empty expression, a program for an
\* expression over declared fields, an error for an undeclared field.
createFilterOperatorErr(filter) ==
    IF filter = NoFilter \/ filter.field \in DeclaredFields THEN "nil" ELSE "error"

\* Lines 106-108: the values the filter program is evaluated with.
FilterBindings(rec) == [f \in {"project_id"} |-> rec.ProjectID]

\* prg.Eval: the value of the comparison, or an error when the field it
\* reads is not bound.
EvalErr(prg, bindings) ==
    IF prg.field \in DOMAIN bindings THEN "nil" ELSE "error"

EvalOut(prg, bindings) ==
    IF prg.op = "==" THEN bindings[prg.field] = prg.value
    ELSE bindings[prg.field] # prg.value

\* The page token of a scan position and a count of returned records.
EncodeCursor(pos, count) == <<pos, count>>

\* queryApplyCursor: the empty token starts the scan at its beginning, the
\* token of a position resumes after it, any other token is an error.
CursorErr(token) ==
    IF token = <<>> THEN "nil"
    ELSE IF /\ Len(token) = 2
            /\ token[1] \in ListIDs
            /\ token[2] \in 1..MaxPageSize
         THEN "nil"
    ELSE "error"

CursorPos(token) == IF token = <<>> THEN 0 ELSE token[1]

\* iteratorGetCursor(it, n): the encoded position of the iterator when the
\* page holds records, the empty token when it holds none.
iteratorGetCursor(pos, n) == IF n > 0 THEN EncodeCursor(pos, n) ELSE <<>>

\* The keys the scan has still to deliver after position pos, in key order.
Remaining(pos) == {id \in DOMAIN store : id > pos}

Least(S) == CHOOSE x \in S : \A y \in S : x <= y

\* The errors it.Next can return at position pos.
NextOutcomes(pos) ==
    (IF Remaining(pos) = {} THEN {"Done"} ELSE {"nil"}) \cup {"fault"}

\* Line 102: the scan runs under the call's context.  Once the context is
\* cancelled the iterator reads no more from storage: it.Next delivers what
\* the iterator had already fetched, or returns the context's error.
NextOutcomesUnder(pos, cancelled) ==
    IF cancelled
    THEN (IF Remaining(pos) = {} THEN {"Done"} ELSE {"nil"}) \cup {"Canceled"}
    ELSE NextOutcomes(pos)

\* Lines 88-91: an error of queryApplyCursor is returned through internalError.
ListCursorErrStatus(err) == internalError(err)

\* Lines 97-99: an error of createFilterOperator is returned through internalError.
ListFilterErrStatus(err) == internalError(err)

\* Lines 122-124: an error of it.Next other than iterator.Done is returned
\* through internalError.
ListScanErrStatus(err) == internalError(err)

\* Lines 109-111: an error of prg.Eval is returned through invalidArgumentError.
ListEvalErrStatus(err) == "InvalidArgument"

\* Lines 112-120: what the loop does after a record whose filter value is
\* out, with n records in the page already: skip it, take it, or take it
\* and leave the loop because the page is full.
ListLoopBreaksOnMismatch(out, n, pageSize) ==
    IF ~out THEN "break"
    ELSE IF n + 1 = pageSize THEN "take_break"
    ELSE "take"

ListLoopTakesAll(out, n, pageSize) ==
    IF n + 1 = pageSize THEN "take_break"
    ELSE "take"

ListLoop(out, n, pageSize) ==
    IF ~out THEN "skip"
    ELSE IF n + 1 = pageSize THEN "take_break"
    ELSE "take"

\* The ListProjects call in flight: its locals (prg, pageSize, the position
\* pos of the iterator, projectMessages), its response (status, nextToken),
\* and what has happened to it so far:
\*   client     whether newDataStoreClient succeeded
\*   start      the position the scan resumed after
\*   reads      the number of it.Next calls
\*   exhausted  whether it.Next has returned iterator.Done
\*   nextErr    the error of the last it.Next call
\*   cancelled  whether the caller's context has been cancelled
NoList ==
    [state |-> "idle", prg |-> NoFilter, pageSize |-> 0, pos |-> 0,
     messages |-> <<>>, status |-> "none", nextToken |-> <<>>, reads |-> 0,
     client |-> TRUE, start |-> 0, exhausted |-> FALSE, nextErr |-> "nil",
     cancelled |-> FALSE]

\* Lines 82-103: the client pages on with the token it holds.
ListProjectsBegin ==
    /\ trav.state = "paging"
    /\ list.state = "idle"
    /\ trav.calls <= MaxProjects
    /\ trav' = [trav EXCEPT !.calls = @ + 1]
    /\ \E clientOk \in BOOLEAN :
        IF ~clientOk
        THEN list' = [NoList EXCEPT !.state = "done", !.status = "Internal",
                                    !.client = FALSE]
        ELSE IF CursorErr(trav.token) # "nil"
        THEN list' = [NoList EXCEPT !.state = "done",
                        !.status = ListCursorErrStatus(CursorErr(trav.token))]
        ELSE IF createFilterOperatorErr(trav.filter) # "nil"
        THEN list' = [NoList EXCEPT !.state = "done",
                        !.status = ListFilterErrStatus(createFilterOperatorErr(trav.filter))]
        ELSE list' = [NoList EXCEPT !.state = "scan",
                                    !.prg = trav.filter,
                                    !.pos = CursorPos(trav.token),
                                    !.start = CursorPos(trav.token),
                                    !.pageSize = boundPageSize(trav.pageSize)]
    /\ UNCHANGED <<rpcVars, cli>>

\* Lines 104-124: one it.Next and the loop body for the record it delivers.
ListProjectsNext ==
    /\ list.state = "scan"
    /\ \E err \in NextOutcomesUnder(list.pos, list.cancelled) :
        IF err \notin {"nil", "Done"}
        THEN list' = [list EXCEPT !.state = "done",
                                  !.status = ListScanErrStatus(err),
                                  !.reads = @ + 1, !.nextErr = err]
        ELSE IF err = "Done"
        THEN list' = [list EXCEPT !.state = "cursor", !.reads = @ + 1,
                                  !.exhausted = TRUE, !.nextErr = err]
        ELSE LET id == Least(Remaining(list.pos))
                 bindings == FilterBindings(store[id])
             IN  IF list.prg # NoFilter /\ EvalErr(list.prg, bindings) # "nil"
                 THEN list' = [list EXCEPT
                                 !.state = "done",
                                 !.status = ListEvalErrStatus(EvalErr(list.prg, bindings)),
                                 !.pos = id, !.reads = @ + 1]
                 ELSE LET out == list.prg = NoFilter \/ EvalOut(list.prg, bindings)
                          todo == ListLoop(out, Len(list.messages), list.pageSize)
                      IN  list' = [list EXCEPT
                                !.pos = id,
                                !.reads = @ + 1,
                                !.messages = IF todo \in {"take", "take_break"}
                                             THEN Append(@, id) ELSE @,
                                !.state = IF todo \in {"take_break", "break"}
                                          THEN "cursor" ELSE "scan"]
    /\ UNCHANGED <<rpcVars, trav, cli>>

\* The caller's cancellation or deadline fires while the scan is iterated.
ListProjectsCancel ==
    /\ list.state = "scan"
    /\ ~list.cancelled
    /\ list' = [list EXCEPT !.cancelled = TRUE]
    /\ UNCHANGED <<rpcVars, trav, cli>>

\* Lines 125-132.
ListProjectsCursor ==
    /\ list.state = "cursor"
    /\ list' = [list EXCEPT
                  !.state = "done",
                  !.status = "OK",
                  !.nextToken = iteratorGetCursor(list.pos, Len(list.messages))]
    /\ UNCHANGED <<rpcVars, trav, cli>>

\* The client takes the response: it keeps the page and pages on with the
\* returned token until that is empty; it gives up on an error.
ListProjectsReturn ==
    /\ list.state = "done"
    /\ list' = NoList
    /\ trav' = IF list.status # "OK"
               THEN [trav EXCEPT !.state = "failed"]
               ELSE [trav EXCEPT
                       !.seen = @ \o list.messages,
                       !.token = list.nextToken,
                       !.state = IF list.nextToken = <<>> THEN "complete" ELSE "paging"]
    /\ UNCHANGED <<rpcVars, cli>>

(* ------------------------- registry compile --------------------------- *)

\* A resource name is a string; it is held as the sequence of its slashes
\* and of the slash-free pieces between them.
Slash == "/"

Pieces == {"projects", "demo"}

Names == UNION {[1..n -> {Slash} \cup Pieces] : n \in 0..MaxNameLen}

\* resourceNameOfSpec: projects/P/apis/A/versions/V/specs/S.
resourceNameOfSpec(segments) ==
    <<"projects", Slash, segments[1], Slash, "apis", Slash, segments[2], Slash,
      "versions", Slash, segments[3], Slash, "specs", Slash, segments[4]>>

SpecNames == {resourceNameOfSpec(<<"demo", "demo", v, "demo">>) : v \in {"v1", "v2"}}

\* strings.Split(name, "/"): the pieces between the slashes, one more than
\* there are slashes, the empty ones included.
RECURSIVE Split(_)
Split(name) ==
    IF \A i \in 1..Len(name) : name[i] # Slash
    THEN <<name>>
    ELSE LET i == CHOOSE k \in 1..Len(name) :
                      /\ name[k] = Slash
                      /\ \A j \in 1..(k - 1) : name[j] # Slash
         IN  <<SubSeq(name, 1, i - 1)>> \o Split(SubSeq(name, i + 1, Len(name)))

\* strings.Join(parts, "/").
RECURSIVE Join(_)
Join(parts) ==
    IF parts = <<>> THEN <<>>
    ELSE IF Len(parts) = 1 THEN parts[1]
    ELSE parts[1] \o <<Slash>> \o Join(Tail(parts))

\* What a call gives: a value, or a run-time panic.
Value(v) == [panic |-> FALSE, value |-> v]

Panic == [panic |-> TRUE, value |-> <<>>]

\* Lines 65-68.  The slice parts[0:len(parts)-2] panics when its upper
\* bound is negative.
ParentNameFromResourceName(name) ==
    LET parts == Split(name)
    IN  IF Len(parts) - 2 < 0
        THEN Panic
        ELSE Value(Join(SubSeq(parts, 1, Len(parts) - 2)))

\* The styles of the specs compileSpec is run on.
Styles == {"openapi/v2", "openapi/v3", "proto"}

OpenAPIStyles == {"openapi/v2", "openapi/v3"}

\* The errors of the calls compileSpec makes.
StepOutcomes == {"nil", "error"}

\* Lines 80-82, 90-92, 94-96, 98-100 (and 108-118): the error is returned.
CompileReturnsErr(err) == err

\* Lines 86-88 and 104-106: on an error of getBytesForSpec, nil is returned.
CompileGetBytesResult(err) == "nil"

\* Lines 125-128: the error of proto.Marshal is overwritten by that of
\* zw.Write, so the bytes of a document that failed to marshal (none) are
\* compressed and uploaded like those of one that marshalled.
UploadContents(marshalErr) == IF marshalErr = "nil" THEN "document" ELSE "empty"

\* The command at rest, and one run of it:
\*   name      the resource name worked on
\*   result    what ParentNameFromResourceName gave
\*   style     the style of the spec GetSpec returned
\*   failed    the step of compileSpec that returned an error
\*   uploaded  what a successful CreateSpec stored: nothing, the compiled
\*             document, or empty contents
\*   parent    the parent CreateSpec was called with
\*   ret       what compileSpec returned
NoCli ==
    [state |-> "idle", name |-> <<>>, result |-> Value(<<>>), style |-> "",
     failed |-> "none", uploaded |-> "none", parent |-> <<>>, ret |-> "none"]

\* A call of ParentNameFromResourceName.
ParentNameCall ==
    /\ cli.state = "idle"
    /\ \E name \in Names \cup SpecNames :
          cli' = [NoCli EXCEPT !.state = "parent_done", !.name = name,
                               !.result = ParentNameFromResourceName(name)]
    /\ UNCHANGED <<rpcVars, list, trav>>

\* Lines 74-84 and 102: the spec is fetched; a spec of another style is
\* left alone.
CompileSpecBegin ==
    /\ cli.state = "idle"
    /\ \E name \in SpecNames, style \in Styles, err \in StepOutcomes :
          cli' = IF err # "nil"
                 THEN [NoCli EXCEPT !.state = "compile_done", !.name = name,
                                    !.failed = "GetSpec",
                                    !.ret = CompileReturnsErr(err)]
                 ELSE IF style \notin OpenAPIStyles
                 THEN [NoCli EXCEPT !.state = "compile_done", !.name = name,
                                    !.style = style, !.ret = "nil"]
                 ELSE [NoCli EXCEPT !.state = "get_bytes", !.name = name,
                                    !.style = style]
    /\ UNCHANGED <<rpcVars, list, trav>>

\* Lines 85-88 (103-106).
CompileGetBytes ==
    /\ cli.state = "get_bytes"
    /\ \E err \in StepOutcomes :
          cli' = IF err # "nil"
                 THEN [cli EXCEPT !.state = "compile_done",
                                  !.failed = "getBytesForSpec",
                                  !.ret = CompileGetBytesResult(err)]
                 ELSE [cli EXCEPT !.state = "read_info"]
    /\ UNCHANGED <<rpcVars, list, trav>>

\* Lines 89-92 (107-110).
CompileReadInfo ==
    /\ cli.state = "read_info"
    /\ \E err \in StepOutcomes :
          cli' = IF err # "nil"
                 THEN [cli EXCEPT !.state = "compile_done",
                                  !.failed = "ReadInfoFromBytes",
                                  !.ret = CompileReturnsErr(err)]
                 ELSE [cli EXCEPT !.state = "new_document"]
    /\ UNCHANGED <<rpcVars, list, trav>>

\* Lines 93-96 (111-114).
CompileNewDocument ==
    /\ cli.state = "new_document"
    /\ \E err \in StepOutcomes :
          cli' = IF err # "nil"
                 THEN [cli EXCEPT !.state = "compile_done",
                                  !.failed = "NewDocument",
                                  !.ret = CompileReturnsErr(err)]
                 ELSE [cli EXCEPT !.state = "upload"]
    /\ UNCHANGED <<rpcVars, list, trav>>

\* Lines 97-100 (115-118) and uploadBytesForSpec, lines 123-147.
CompileUpload ==
    /\ cli.state = "upload"
    /\ \E marshalErr \in StepOutcomes, err \in StepOutcomes :
          LET parent == ParentNameFromResourceName(cli.name)
          IN  cli' = IF err # "nil"
                     THEN [cli EXCEPT !.state = "compile_done",
                                      !.result = parent,
                                      !.parent = parent.value,
                                      !.failed = "CreateSpec",
                                      !.ret = CompileReturnsErr(err)]
                     ELSE [cli EXCEPT !.state = "compile_done",
                                      !.result = parent,
                                      !.parent = parent.value,
                                      !.failed = IF marshalErr = "nil" THEN "none"
                                                 ELSE "Marshal",
                                      !.uploaded = UploadContents(marshalErr),
                                      !.ret = "nil"]
    /\ UNCHANGED <<rpcVars, list, trav>>

\* The call has returned to the command.
CliReturn ==
    /\ cli.state \in {"parent_done", "compile_done"}
    /\ cli' = NoCli
    /\ UNCHANGED <<rpcVars, list, trav>>

(* --------------------------- specification ---------------------------- *)

NoTrav ==
    [state |-> "off", filter |-> NoFilter, pageSize |-> 0, token |-> <<>>,
     seen |-> <<>>, calls |-> 0]

Init ==
    /\ store = <<>>
    /\ children = [id \in KeyIDs |-> {}]
    /\ now = 0
    /\ calls = 0
    /\ pc = [p \in Procs |-> "idle"]
    /\ request = [p \in Procs |-> NoRequest]
    /\ project = [p \in Procs |-> NewProject(BadID)]
    /\ resp = [p \in Procs |-> "none"]
    /\ hist = [p \in Procs |-> NoHist]
    /\ list = NoList
    /\ trav = NoTrav
    /\ cli = NoCli

Step(p) ==
    \/ CreateProjectBegin(p)
    \/ CreateProjectGet(p)
    \/ CreateProjectPut(p)
    \/ GetProjectBegin(p)
    \/ GetProjectGet(p)
    \/ UpdateProjectBegin(p)
    \/ UpdateProjectGet(p)
    \/ UpdateProjectPut(p)
    \/ DeleteProjectBegin(p)
    \/ DeleteProjectChild(p)
    \/ DeleteProjectChildrenDone(p)
    \/ DeleteProjectKey(p)
    \/ Finish(p)

\* RPCs are served concurrently.
Next ==
    \/ \E p \in Procs : Step(p)
    \/ CreateChild

Spec == Init /\ [][Next]_vars

\* Between two calls that run one after another, descendants come and go
\* only while no call is in flight.
CreateChildBetweenCalls ==
    /\ \A p \in Procs : pc[p] = "idle"
    /\ CreateChild

\* RPCs are issued one after another: each call returns before the next starts.
NextSeq ==
    \/ Step(SeqProc)
    \/ CreateChildBetweenCalls

SpecSeq == Init /\ [][NextSeq]_vars

\* A project as a successful CreateProject stores it.
StoredProject(id) ==
    [ProjectID |-> id, DisplayName |-> "Demo", CreateTime |-> 1, UpdateTime |-> 1]

\* The page token of a client's first call: the empty token, or a token no
\* call returned (cut short, or with a position that does not exist).
StartTokens == {<<>>, <<BadID>>, <<BadID, DefaultPageSize>>}

\* Any set of stored projects, and a client that pages through them with one
\* filter and one page size while nothing is written.
InitList ==
    /\ \E S \in SUBSET ListIDs : store = [id \in S |-> StoredProject(id)]
    /\ children = [id \in KeyIDs |-> {}]
    /\ now = 1
    /\ calls = 0
    /\ pc = [p \in Procs |-> "idle"]
    /\ request = [p \in Procs |-> NoRequest]
    /\ project = [p \in Procs |-> NewProject(BadID)]
    /\ resp = [p \in Procs |-> "none"]
    /\ hist = [p \in Procs |-> NoHist]
    /\ cli = NoCli
    /\ list = NoList
    /\ \E f \in Filters, n \in -1..MaxPageReq, t \in StartTokens :
          trav = [NoTrav EXCEPT !.state = "paging", !.filter = f, !.pageSize = n,
                                !.token = t]

NextList ==
    \/ ListProjectsBegin
    \/ ListProjectsNext
    \/ ListProjectsCancel
    \/ ListProjectsCursor
    \/ ListProjectsReturn

SpecList == InitList /\ [][NextList]_vars

\* The compile command and the function it uses, on their own.
NextCli ==
    \/ ParentNameCall
    \/ CompileSpecBegin
    \/ CompileGetBytes
    \/ CompileReadInfo
    \/ CompileNewDocument
    \/ CompileUpload
    \/ CliReturn

SpecCli == Init /\ [][NextCli]_vars

(* ------------------------------ claims -------------------------------- *)

\* Call p of handler op has returned (its response is not yet delivered).
Done(p, op) == pc[p] = "done" /\ request[p].op = op

\* The step by which call p issues the write at `at` and returns.
WriteStep(p, at, id) ==
    /\ pc[p] = at
    /\ pc'[p] = "done"
    /\ request[p].id = id

\* C1: a CreateProject call (with fields that apply) for a key that is
\* stored when the call checks for it returns already-exists and issues no
\* write, so what is stored is the same after the call as before it.
C1_CreateOnStoredKeyRefused ==
    \A p \in Procs :
        (Done(p, "Create") /\ hist[p].present /\ ~request[p].invalid)
            => /\ resp[p] = "AlreadyExists"
               /\ hist[p].write = "none"
               /\ ~hist[p].changed

\* C2: GetProject, UpdateProject and DeleteProject on a well-formed key that
\* is not stored return not-found (no storage operation of the call having
\* failed) and leave storage unchanged.
C2_AbsentKeyIsNotFound ==
    \A p \in Procs :
        ( /\ pc[p] = "done"
          /\ request[p].op \in {"Get", "Update", "Delete"}
          /\ hist[p].read # "none" \/ hist[p].write # "none"
          /\ ~hist[p].present
          /\ hist[p].read # "fault"
          /\ hist[p].write # "fault"
          /\ ~hist[p].childFault )
            => /\ resp[p] = "NotFound"
               /\ ~hist[p].changed

\* C3: when calls run one after another, every successful UpdateProject
\* leaves the stored createTime as it was and makes the stored updateTime
\* strictly greater than it was.
C3_UpdateKeepsCreateTime ==
    [][\A p \in Procs : \A id \in KeyIDs :
          (WriteStep(p, "update_put", id) /\ resp'[p] = "OK")
              => /\ Present(id)
                 /\ id \in DOMAIN store'
                 /\ store'[id].CreateTime = store[id].CreateTime
                 /\ store'[id].UpdateTime > store[id].UpdateTime]_vars

\* C3 witness: a record created at some time has been updated successfully
\* twice over, the last update having just returned.
C3_Witness ==
    \E p \in Procs :
        /\ Done(p, "Update")
        /\ resp[p] = "OK"
        /\ Present(request[p].id)
        /\ store[request[p].id].CreateTime > 0
        /\ store[request[p].id].UpdateTime >= store[request[p].id].CreateTime + 2
        /\ store[request[p].id].DisplayName = request[p].name

\* C4: after DeleteProject returns without an error, neither the project's
\* key nor any of its descendants is stored, whatever the outcome of the
\* deletions of the descendants.
C4_DeleteRemovesDescendants ==
    \A p \in Procs :
        (Done(p, "Delete") /\ resp[p] = "OK")
            => /\ ~Present(request[p].id)
               /\ children[request[p].id] = {}

\* The stored projects that satisfy the filter, in the order of the scan.
RECURSIVE ScanFrom(_)
ScanFrom(pos) ==
    IF Remaining(pos) = {} THEN <<>>
    ELSE <<Least(Remaining(pos))>> \o ScanFrom(Least(Remaining(pos)))

FilterMatches(f, id) ==
    \/ f = NoFilter
    \/ f.field = "project_id" /\ f.op = "==" /\ store[id].ProjectID = f.value
    \/ f.field = "project_id" /\ f.op = "!=" /\ store[id].ProjectID # f.value

Matching(f) == SelectSeq(ScanFrom(0), LAMBDA id : FilterMatches(f, id))

\* C5: over an unchanging set of stored projects, paging with one filter and
\* one page size from the empty token until the empty token comes back
\* returns every matching project exactly once, in the order of the scan,
\* and takes at most one call more than there are matching projects.
C5_PagingReturnsEachOnce ==
    /\ trav.state = "complete" => trav.seen = Matching(trav.filter)
    /\ trav.state \in {"paging", "complete"} /\ list.state = "idle"
          => trav.calls <= Len(trav.seen) + 1

\* C5 witness: a traversal of several pages has ended, with a filter that
\* left some stored projects out.
C5_Witness ==
    /\ trav.state = "complete"
    /\ trav.calls >= 3
    /\ trav.filter.op = "!="
    /\ Len(trav.seen) >= 3
    /\ Len(trav.seen) < Cardinality(DOMAIN store)

\* C6: under any interleaving (no read of a call having failed), a key
\* becomes stored only by the write of a CreateProject, stops being stored
\* only by the delete of a DeleteProject, and the write of a CreateProject
\* never lands on a key that is stored.
C6_OnlyLegalTransitions ==
    [][\A id \in KeyIDs :
          /\ (~Present(id) /\ id \in DOMAIN store')
                => \E p \in Procs : WriteStep(p, "create_put", id)
          /\ (Present(id) /\ id \notin DOMAIN store')
                => \E p \in Procs : WriteStep(p, "delete_key", id)
          /\ \A p \in Procs :
                ( /\ WriteStep(p, "create_put", id)
                  /\ hist[p].read # "fault"
                  /\ hist'[p].write = "nil" )
                    => ~Present(id)]_vars

\* C7: under any interleaving (no read of a call having failed), the
\* createTime stored at a key does not change for as long as the key stays
\* stored, and the stored updateTime is never less than the stored createTime.
C7_CreateTimeSetOnce ==
    [][\A id \in KeyIDs :
          /\ (id \in DOMAIN store')
                => store'[id].UpdateTime >= store'[id].CreateTime
          /\ ( /\ Present(id)
               /\ id \in DOMAIN store'
               /\ \A p \in Procs : pc'[p] # pc[p] => hist[p].read # "fault" )
                => store'[id].CreateTime = store[id].CreateTime]_vars

\* C8: an UpdateProject whose field application fails returns an error,
\* issues no write, and leaves what is stored as it was.
C8_FailedUpdateWritesNothing ==
    \A p \in Procs :
        (Done(p, "Update") /\ hist[p].apply = "error")
            => /\ resp[p] \notin {"OK", "none"}
               /\ hist[p].write = "none"
               /\ ~hist[p].changed

\* C8 witness: an UpdateProject of a stored project has returned after its
\* field application failed.
C8_Witness ==
    \E p \in Procs :
        /\ Done(p, "Update")
        /\ hist[p].apply = "error"
        /\ hist[p].read = "nil"
        /\ Present(request[p].id)
        /\ resp[p] = "Internal"

\* C9: a CreateProject whose field application fails returns
\* invalid-argument and issues no write.
C9_FailedCreateWritesNothing ==
    \A p \in Procs :
        (Done(p, "Create") /\ hist[p].apply = "error")
            => /\ resp[p] = "InvalidArgument"
               /\ hist[p].write = "none"
               /\ ~hist[p].changed

\* C10: in GetProject, CreateProject and UpdateProject a read of the key
\* that fails with a fault other than no-such-key makes the call return
\* internal, and no write follows it.
C10_ReadFaultIsInternal ==
    \A p \in Procs :
        ( /\ pc[p] = "done"
          /\ request[p].op \in {"Get", "Create", "Update"}
          /\ hist[p].read = "fault" )
            => /\ resp[p] = "Internal"
               /\ hist[p].write = "none"

\* A ListProjects call has returned (its response not yet taken by the client).
ListDone == list.state = "done"

\* C11: a ListProjects call with a page token that no call returned, or with
\* a filter over a field that is not declared, returns InvalidArgument, and
\* it has called it.Next not once.
C11_BadTokenOrFilterIsInvalidArgument ==
    (/\ ListDone
     /\ list.client
     /\ \/ trav.token \in StartTokens \ {<<>>}
        \/ trav.filter # NoFilter /\ trav.filter.field \notin DeclaredFields)
        => /\ list.status = "InvalidArgument"
           /\ list.reads = 0

\* The stored projects after position pos that satisfy filter f.
MatchingAfter(f, pos) == {id \in Remaining(pos) : FilterMatches(f, id)}

\* C12: a ListProjects call that returns a page returns the empty token
\* whenever it.Next returned iterator.Done during the call, and a token that
\* is not empty whenever a stored project after the last one it scanned
\* satisfies the filter.
C12_EmptyTokenIffNoMoreResults ==
    (ListDone /\ list.status = "OK")
        => /\ list.exhausted => list.nextToken = <<>>
           /\ MatchingAfter(trav.filter, list.pos) # {} => list.nextToken # <<>>

\* C13: a ListProjects call whose it.Next returned the error of the cancelled
\* context returns the Canceled status.
C13_CancelledScanIsCanceled ==
    (ListDone /\ list.cancelled /\ list.nextErr = "Canceled")
        => list.status = "Canceled"

\* The stored projects after position from up to position to, in the order
\* of the scan.
ScannedBetween(from, to) == SelectSeq(ScanFrom(from), LAMBDA id : id <= to)

\* The page size the request asks for, clamped.
PageBound(n) ==
    IF n <= 0 THEN DefaultPageSize ELSE IF n > MaxPageSize THEN MaxPageSize ELSE n

\* C14: a page returned by ListProjects holds at most boundPageSize(pageSize)
\* projects, each of which satisfies the filter; it holds, in the order of
\* the scan, exactly the projects satisfying the filter among those the scan
\* delivered from the resume position on, and the scan went on until the
\* page was full or the scan was exhausted.
C14_PageIsBoundedFilteredPrefix ==
    (ListDone /\ list.status = "OK")
        => /\ Len(list.messages) <= PageBound(trav.pageSize)
           /\ \A i \in 1..Len(list.messages) :
                 FilterMatches(trav.filter, list.messages[i])
           /\ list.start = (IF trav.token = <<>> THEN 0 ELSE trav.token[1])
           /\ list.messages =
                 SelectSeq(ScannedBetween(list.start, list.pos),
                           LAMBDA id : FilterMatches(trav.filter, id))
           /\ \/ Len(list.messages) = PageBound(trav.pageSize)
                   /\ list.messages[Len(list.messages)] = list.pos
              \/ list.exhausted /\ Remaining(list.pos) = {}

\* C14 witness: a full page has been returned that resumed after an earlier
\* page and left out a scanned project that does not satisfy the filter.
C14_Witness ==
    /\ ListDone
    /\ list.status = "OK"
    /\ trav.token # <<>>
    /\ trav.filter # NoFilter
    /\ Len(list.messages) = PageBound(trav.pageSize)
    /\ \E id \in DOMAIN store :
          /\ list.start < id /\ id < list.pos
          /\ ~FilterMatches(trav.filter, id)

\* C15: a ListProjects call whose filter reads only declared fields does not
\* return the InvalidArgument of an evaluation error.
C15_DeclaredFieldsEvaluate ==
    (/\ ListDone
     /\ trav.filter # NoFilter
     /\ trav.filter.field \in DeclaredFields)
        => list.status # "InvalidArgument"

\* C16: within a DeleteProject call, the Delete of the project's own key is
\* issued only when DeleteChildren has returned: every descendant the call
\* found is deleted, or a deletion has failed and ended DeleteChildren.
C16_OwnKeyAfterDescendants ==
    \A p \in Procs :
        (request[p].op = "Delete" /\ hist[p].write # "none")
            => \/ hist[p].childrenLeft = {}
               \/ hist[p].childFault

\* C16 witness: a DeleteProject call has deleted two descendants and then
\* the project's own key, which was stored.
C16_Witness ==
    \E p \in Procs :
        /\ Done(p, "Delete")
        /\ Cardinality(hist[p].childrenDeleted) >= 2
        /\ hist[p].childrenLeft = {}
        /\ hist[p].present
        /\ hist[p].write = "nil"
        /\ ~Present(request[p].id)

\* C17: a DeleteProject call in which the deletion of a descendant failed
\* has issued the Delete of the project's own key, and its status is that
\* of this Delete alone.
C17_ChildFaultDoesNotAbort ==
    \A p \in Procs :
        (Done(p, "Delete") /\ hist[p].childFault)
            => /\ hist[p].write # "none"
               /\ resp[p] = (IF hist[p].write = "nil" THEN "OK" ELSE "Internal")

\* C17 witness: a DeleteProject call has returned without an error after
\* the deletion of a descendant failed; the project's key is gone and the
\* descendant is still stored.
C17_Witness ==
    \E p \in Procs :
        /\ Done(p, "Delete")
        /\ hist[p].childFault
        /\ hist[p].write = "nil"
        /\ resp[p] = "OK"
        /\ ~Present(request[p].id)
        /\ children[request[p].id] # {}

\* C18: after a CreateProject call that returns without an error, the record
\* stored under the key has a createTime that is not zero and equals its
\* updateTime, and it is the record the call returns.
C18_CreateStampsStoredRecord ==
    \A p \in Procs :
        (Done(p, "Create") /\ resp[p] = "OK")
            => /\ Present(request[p].id)
               /\ store[request[p].id].CreateTime > 0
               /\ store[request[p].id].CreateTime = store[request[p].id].UpdateTime
               /\ store[request[p].id] = project[p]

\* The positions of the slashes of a name.
SlashAt(name) == {i \in 1..Len(name) : name[i] = Slash}

\* A name of two or more path elements without its trailing two.
WithoutLastTwo(name) ==
    IF Cardinality(SlashAt(name)) = 1 THEN <<>>
    ELSE LET k == CHOOSE i \in SlashAt(name) :
                      Cardinality({j \in SlashAt(name) : j > i}) = 1
         IN  SubSeq(name, 1, k - 1)

\* C19: ParentNameFromResourceName returns a value for every name; for a
\* name of two or more path elements this is the name without its trailing
\* two elements, and for the name of a spec it is the name of the version
\* the spec belongs to.
C19_ParentNameIsTotal ==
    cli.state = "parent_done"
        => /\ ~cli.result.panic
           /\ SlashAt(cli.name) # {}
                 => cli.result.value = WithoutLastTwo(cli.name)
           /\ cli.name \in SpecNames
                 => /\ Len(cli.result.value) = 11
                    /\ cli.result.value = SubSeq(cli.name, 1, 11)
                    /\ cli.result.value[9] = "versions"

\* C20: a compileSpec run on a spec of an OpenAPI style returns nil only
\* when a successful CreateSpec has uploaded the compiled document, and
\* returns an error when one of its steps failed.
C20_NilOnlyAfterUpload ==
    (cli.state = "compile_done" /\ cli.style \in OpenAPIStyles)
        => /\ cli.ret = "nil" => cli.uploaded = "document"
           /\ cli.failed # "none" => cli.ret # "nil"

====
